---- MODULE Spec2Model ----
(***************************************************************************)
(* A model of restinio's WebSocket connection (impl/ws_connection.hpp):    *)
(* the outgoing buffer queue ws_outgoing_data_t, the write loop            *)
(* write_data_impl / init_write_if_necessary / after_write, the close      *)
(* path graceful_close / close_impl / call_close_handler, and the strand   *)
(* on which every handler of one connection runs.                          *)
(*                                                                         *)
(* Every handler is an operator from a connection state (a record) to the  *)
(* connection state it leaves, composed as the code composes the calls.    *)
(* An action runs one whole handler on the strand and commits its result.  *)
(***************************************************************************)
EXTENDS Integers, Sequences, FiniteSets, TLC

\* ---------------------------------------------------------------- bounds

\* The number of public calls (close, init_read, write_data) made on the
\* connection in one run.
MaxCalls == 3

\* The largest number of buffers one write_data call carries.
MaxBufsPerCall == 2

\* How many buffers raw_resp_output_ctx_t takes from the queue for one
\* socket write (the max_buf_count it gives to pop_ready_buffers), kept small
\* so that a queue longer than one write is reached.
MaxIovLen == 2

\* The largest payload length start_read_payload is asked to read.
MaxPayloadLen == 3

\* How many payload read completions of one message are followed.
MaxPayloadReads == 3

\* ------------------------------------------------------------- vocabulary

\* close_handler_t{} (an empty handler) and the handler the user passes to
\* the constructor.
NoHandler == "empty"
UserHandler == "user_close_handler"

\* Error codes a completion can carry.
EcOk == "ok"
EcAborted == "operation_aborted"
EcError == "broken pipe"
ErrorCodes == {EcOk, EcAborted, EcError}

\* what() of the exceptions the model raises.
NoEx == "none"
BadAlloc == "std::bad_alloc"
FormatError == "argument index out of range"

\* One thing that happened: a call on the socket, a completion it reported,
\* an invocation of the close handler, a logger entry, a failed assert, an
\* entry into graceful_close.
Ev(e, bufs, reason) == [e |-> e, bufs |-> bufs, reason |-> reason]

\* One handler waiting on the strand.
Task(op, bufs, ec) == [op |-> op, bufs |-> bufs, ec |-> ec]

VARIABLES
    socket_open,          \* m_socket.is_open()
    m_close_handler,      \* m_close_handler: NoHandler or UserHandler
    m_awaiting_buffers,   \* ws_outgoing_data_t::m_awaiting_buffers
    m_close_when_done,    \* ws_outgoing_data_t::m_close_when_done
    m_bufs,               \* raw_resp_output_ctx_t: the staged buffers
    m_transmitting,       \* raw_resp_output_ctx_t: the transmitting flag
    pending_writes,       \* async_write operations not yet completed
    pending_reads,        \* async_read_some operations not yet completed
    pending_payload_reads, \* payload reads not yet completed: bytes asked for
    strand,               \* handlers dispatched to m_strand, oldest first
    log,                  \* what has happened so far, oldest first
    accepted,             \* the buffers append() has taken, in order
    trace_enabled,        \* whether m_logger evaluates trace messages
    read_inited,          \* init_read() has been called
    calls,                \* public calls made so far
    external_refs,        \* shared_ptr handles held outside the connection
    destroyed             \* ~ws_connection_t() has run

vars == << socket_open, m_close_handler, m_awaiting_buffers, m_close_when_done,
           m_bufs, m_transmitting, pending_writes, pending_reads,
           pending_payload_reads, strand, log, accepted, trace_enabled,
           read_inited, calls, external_refs, destroyed >>

\* The connection's state as one value; ex is the exception in flight and
\* oom says whether the next allocation fails (both live only inside a
\* handler).
St ==
    [ socket_open |-> socket_open,
      m_close_handler |-> m_close_handler,
      m_awaiting_buffers |-> m_awaiting_buffers,
      m_close_when_done |-> m_close_when_done,
      m_bufs |-> m_bufs,
      m_transmitting |-> m_transmitting,
      pending_writes |-> pending_writes,
      pending_reads |-> pending_reads,
      pending_payload_reads |-> pending_payload_reads,
      log |-> log,
      accepted |-> accepted,
      ex |-> NoEx,
      oom |-> FALSE ]

\* The handler leaves the connection in state s.
Commit(s) ==
    /\ socket_open' = s.socket_open
    /\ m_close_handler' = s.m_close_handler
    /\ m_awaiting_buffers' = s.m_awaiting_buffers
    /\ m_close_when_done' = s.m_close_when_done
    /\ m_bufs' = s.m_bufs
    /\ m_transmitting' = s.m_transmitting
    /\ pending_writes' = s.pending_writes
    /\ pending_reads' = s.pending_reads
    /\ pending_payload_reads' = s.pending_payload_reads
    /\ log' = s.log
    /\ accepted' = s.accepted

\* The connection is in state s.
Holds(s) ==
    /\ socket_open = s.socket_open
    /\ m_close_handler = s.m_close_handler
    /\ m_awaiting_buffers = s.m_awaiting_buffers
    /\ m_close_when_done = s.m_close_when_done
    /\ m_bufs = s.m_bufs
    /\ m_transmitting = s.m_transmitting
    /\ pending_writes = s.pending_writes
    /\ pending_reads = s.pending_reads
    /\ pending_payload_reads = s.pending_payload_reads
    /\ log = s.log
    /\ accepted = s.accepted

Emit(s, e, bufs, reason) == [s EXCEPT !.log = Append(@, Ev(e, bufs, reason))]

Throw(s, what) == [s EXCEPT !.ex = what]

Caught(s) == [s EXCEPT !.ex = NoEx]

\* ------------------------------------------------- ws_outgoing_data_t

\* append( bufs ): the assert on m_close_when_done, then the queue adopts
\* bufs when it is empty and takes them at its end otherwise.  The
\* allocation of the new storage can fail before anything is changed.
append(s, bufs) ==
    LET checked == IF s.m_close_when_done
                   THEN Emit(s, "assert_failed", <<>>, "!m_close_when_done")
                   ELSE s
    IN  IF s.oom
        THEN Throw(checked, BadAlloc)
        ELSE [checked EXCEPT
                !.m_awaiting_buffers = IF @ = <<>> THEN bufs ELSE @ \o bufs,
                !.accepted = @ \o bufs]

\* pop_ready_buffers with the erase of the moved buffers left out.
pop_ready_buffers_no_erase(awaiting, max_buf_count, bufs) ==
    IF max_buf_count >= Len(awaiting)
    THEN [awaiting |-> <<>>, bufs |-> awaiting]
    ELSE [awaiting |-> awaiting,
          bufs |-> bufs \o SubSeq(awaiting, 1, max_buf_count)]

\* pop_ready_buffers( max_buf_count, bufs ): the queue is moved out whole
\* when it fits (bufs is replaced and the moved-from vector is empty),
\* otherwise its first max_buf_count buffers are moved to the end of bufs
\* and erased from the queue.
pop_ready_buffers(awaiting, max_buf_count, bufs) ==
    IF max_buf_count >= Len(awaiting)
    THEN [awaiting |-> <<>>, bufs |-> awaiting]
    ELSE [awaiting |-> SubSeq(awaiting, max_buf_count + 1, Len(awaiting)),
          bufs |-> bufs \o SubSeq(awaiting, 1, max_buf_count)]

close_when_done(s) == s.m_close_when_done

set_close_when_done(s) == [s EXCEPT !.m_close_when_done = TRUE]

\* ------------------------------------------------ raw_resp_output_ctx_t

transmitting(s) == s.m_transmitting

\* obtain_bufs( queue ): pops up to max_iov_len() buffers into the staging
\* area; its result is whether the staging area holds anything.
obtain_bufs(s) ==
    LET r == pop_ready_buffers(s.m_awaiting_buffers, MaxIovLen, s.m_bufs)
    IN  [s EXCEPT !.m_awaiting_buffers = r.awaiting, !.m_bufs = r.bufs]

\* create_bufs(): the staged buffers as one vectored write, now in flight.
create_bufs(s) == [s EXCEPT !.m_transmitting = TRUE]

\* done(): releases the staged buffers and clears the flag.
done(s) == [s EXCEPT !.m_bufs = <<>>, !.m_transmitting = FALSE]

\* ------------------------------------------------------ close functions

\* call_close_handler without the test of m_close_handler.
call_close_handler_unguarded(s, reason) ==
    [Emit(s, "close_handler", <<>>, reason) EXCEPT !.m_close_handler = NoHandler]

\* call_close_handler( reason ): invokes the handler if there is one and
\* replaces it by an empty one.
call_close_handler(s, reason) ==
    IF s.m_close_handler # NoHandler
    THEN [Emit(s, "close_handler", <<>>, reason) EXCEPT
            !.m_close_handler = NoHandler]
    ELSE s

\* trigger_error_and_close( reason, msg_builder ): logs the error and calls
\* the close handler.
trigger_error_and_close(s, reason) ==
    call_close_handler(Emit(s, "log_error", <<>>, reason), reason)

\* close_impl(): shutdown of both directions, then close of the socket.
close_impl(s) ==
    [Emit(Emit(s, "socket_shutdown", <<>>, ""), "socket_close", <<>>, "")
        EXCEPT !.socket_open = FALSE]

\* ----------------------------------------------------------- write loop

\* asio::async_write( m_socket, bufs, callback ): one write on the socket.
async_write(s) ==
    [Emit(s, "async_write", s.m_bufs, "") EXCEPT
        !.pending_writes = Append(@, s.m_bufs)]

\* init_write_if_necessary without the test of transmitting().
init_write_if_necessary_unguarded(s) ==
    LET o == obtain_bufs(s)
    IN  IF o.m_bufs # <<>>
        THEN async_write(create_bufs(o))
        ELSE IF close_when_done(o)
             THEN close_impl(call_close_handler(o, "user initiated"))
             ELSE o

\* init_write_if_necessary(): starts a write when none is in flight and the
\* queue holds something; closes when the queue is empty and close was
\* requested.
init_write_if_necessary(s) ==
    IF ~transmitting(s)
    THEN LET o == obtain_bufs(s)
         IN  IF o.m_bufs # <<>>
             THEN async_write(create_bufs(o))
             ELSE IF close_when_done(o)
                  THEN close_impl(call_close_handler(o, "user initiated"))
                  ELSE o
    ELSE s

\* write_data_impl with the test of close_when_done() left to append's
\* assert.
write_data_impl_assert_only(s, bufs) ==
    IF ~s.socket_open
    THEN Emit(s, "log_warn", <<>>, "socket is closed")
    ELSE LET a == append(s, bufs)
         IN  IF a.ex # NoEx THEN a ELSE init_write_if_necessary(a)

\* write_data_impl without its two early returns.
write_data_impl_unguarded(s, bufs) ==
    LET a == append(s, bufs)
    IN  IF a.ex # NoEx THEN a ELSE init_write_if_necessary(a)

\* write_data_impl( bufs ): nothing but a warning when the socket is closed
\* or close was requested; otherwise the buffers are queued and a write is
\* started if none is in flight.
write_data_impl(s, bufs) ==
    IF ~s.socket_open
    THEN Emit(s, "log_warn", <<>>, "socket is closed")
    ELSE IF close_when_done(s)
         THEN Emit(s, "log_warn", <<>>, "websocket was closed")
         ELSE LET a == append(s, bufs)
              IN  IF a.ex # NoEx THEN a ELSE init_write_if_necessary(a)

\* after_write without the test for operation_aborted.
after_write_no_abort_test(s, ec) ==
    IF ec = EcOk
    THEN LET d == done(s)
         IN  IF trace_enabled
             THEN Throw(d, FormatError)
             ELSE IF d.socket_open THEN init_write_if_necessary(d) ELSE d
    ELSE trigger_error_and_close(s, ec)

\* after_write( ec, written ): on success the staged buffers are released,
\* the trace message is built (its format string names two arguments and is
\* given one, which fmt reports by throwing when the message is built), and
\* the next write is started if the socket is open; an error other than
\* operation_aborted goes to trigger_error_and_close.
after_write(s, ec) ==
    IF ec = EcOk
    THEN LET d == done(s)
         IN  IF trace_enabled
             THEN Throw(d, FormatError)
             ELSE IF d.socket_open THEN init_write_if_necessary(d) ELSE d
    ELSE IF ec # EcAborted
         THEN trigger_error_and_close(s, ec)
         ELSE s

\* graceful_close closing the socket at once instead of leaving it to the
\* write loop.
graceful_close_forced(s) ==
    LET g == Emit(s, "graceful_close", <<>>, "")
    IN  IF ~close_when_done(g)
        THEN close_impl(call_close_handler(set_close_when_done(g),
                                           "user initiated"))
        ELSE g

\* graceful_close without the test of close_when_done().
graceful_close_unguarded(s) ==
    init_write_if_necessary(
        set_close_when_done(Emit(s, "graceful_close", <<>>, "")))

\* graceful_close(): sets the flag once and lets the write loop finish.  The
\* log notes each entry.
graceful_close(s) ==
    LET g == Emit(s, "graceful_close", <<>>, "")
    IN  IF ~close_when_done(g)
        THEN init_write_if_necessary(set_close_when_done(g))
        ELSE g

\* ------------------------------------------------------------ read loop

\* start_read_header(): one async_read_some into the header buffer; the
\* allocation of the operation can fail.
start_read_header(s) ==
    IF s.oom
    THEN Throw(s, BadAlloc)
    ELSE [Emit(s, "async_read_some", <<>>, "") EXCEPT !.pending_reads = @ + 1]

\* after_read_header( ec, length ): both branches are empty (the parsing of
\* the header, the delivery of the message and the handling of the error
\* are comments), so neither ec nor what was read changes anything.
after_read_header(s, ec) == IF ec = EcOk THEN s ELSE s

\* start_read_payload( payload_data, length_remaining ):
\* m_socket.async_read_some for the bytes still missing.
start_read_payload(s, length_remaining) ==
    [Emit(s, "async_read_payload", << length_remaining >>, "")
        EXCEPT !.pending_payload_reads = Append(@, length_remaining)]

\* The completion callback of start_read_payload: "if( ec )" holds only a
\* TODO; then a short read asks for the rest and a full one asserts that
\* nothing is missing (the call of the message handler is a comment).
after_read_payload(s, ec, length, length_remaining) ==
    LET s1 == IF ec # EcOk THEN s ELSE s
    IN  IF length < length_remaining
        THEN start_read_payload(s1, length_remaining - length)
        ELSE IF length = length_remaining
             THEN s1
             ELSE Emit(s1, "assert_failed", <<>>, "length == length_remaining")

\* ------------------------------------- the closures given to the strand

\* close(): graceful_close(); an exception is logged (graceful_close raises
\* none of the exceptions modelled here).
close_task(s) ==
    LET r == graceful_close(s)
    IN  IF r.ex # NoEx THEN Emit(Caught(r), "log_error", <<>>, r.ex) ELSE r

\* init_read(): start_read_header(); an exception goes to
\* trigger_error_and_close.
init_read_task(s) ==
    LET r == start_read_header(s)
    IN  IF r.ex # NoEx THEN trigger_error_and_close(Caught(r), r.ex) ELSE r

\* write_data( bufs ): write_data_impl( bufs ); an exception goes to
\* trigger_error_and_close.
write_data_task(s, bufs) ==
    LET r == write_data_impl(s, bufs)
    IN  IF r.ex # NoEx THEN trigger_error_and_close(Caught(r), r.ex) ELSE r

\* The callback of async_write: after_write( ec, written ); an exception
\* goes to trigger_error_and_close.
after_write_callback(s, ec) ==
    LET r == after_write(s, ec)
    IN  IF r.ex # NoEx THEN trigger_error_and_close(Caught(r), r.ex) ELSE r

\* ---------------------------------------------------------- the machine

\* ws_connection_t( conn_id, socket, settings, msg_handler, close_handler ):
\* the initializer list stores the socket, the strand, the settings, the
\* header buffer, msg_handler and the logger; m_close_handler is not in it
\* and is default-constructed, as are the queue and the output context.
ws_connection_t(close_handler) ==
    [ socket_open |-> TRUE,
      m_close_handler |-> NoHandler,
      m_awaiting_buffers |-> <<>>,
      m_close_when_done |-> FALSE,
      m_bufs |-> <<>>,
      m_transmitting |-> FALSE,
      pending_writes |-> <<>>,
      pending_reads |-> 0,
      pending_payload_reads |-> <<>>,
      log |-> <<>>,
      accepted |-> <<>>,
      ex |-> NoEx,
      oom |-> FALSE ]

Init ==
    /\ Holds(ws_connection_t(UserHandler))
    /\ strand = <<>>
    /\ trace_enabled \in BOOLEAN
    /\ read_inited = FALSE
    /\ calls = 0
    /\ external_refs = 1
    /\ destroyed = FALSE

\* asio::dispatch( get_executor(), closure ): the closure joins the strand.
\* (dispatch runs a closure at once only when called from inside the strand,
\* that is from a user handler; this revision invokes none.) The caller
\* reaches the connection through a handle it holds.
dispatch(task) ==
    /\ external_refs > 0
    /\ calls < MaxCalls
    /\ calls' = calls + 1
    /\ strand' = Append(strand, task)
    /\ UNCHANGED << socket_open, m_close_handler, m_awaiting_buffers,
                    m_close_when_done, m_bufs, m_transmitting, pending_writes,
                    pending_reads, pending_payload_reads, log, accepted,
                    trace_enabled, external_refs, destroyed >>

\* The n buffers of the next write_data call, each its own value.
NewBufs(n) == [i \in 1..n |-> << calls + 1, i >>]

\* The strand runs its oldest closure.
Runs(op) ==
    /\ strand # <<>>
    /\ Head(strand).op = op
    /\ strand' = Tail(strand)
    /\ UNCHANGED << trace_enabled, read_inited, calls, external_refs,
                    destroyed >>

\* ---- the public calls, from any thread
close ==
    /\ dispatch(Task("close", <<>>, EcOk))
    /\ UNCHANGED read_inited

init_read ==
    /\ ~read_inited
    /\ read_inited' = TRUE
    /\ dispatch(Task("init_read", <<>>, EcOk))

write_data ==
    /\ \E n \in 0..MaxBufsPerCall :
          dispatch(Task("write_data", NewBufs(n), EcOk))
    /\ UNCHANGED read_inited

\* ---- the closures, one at a time on the strand
run_close ==
    /\ Runs("close")
    /\ Commit(close_task(St))

run_init_read ==
    /\ Runs("init_read")
    /\ \E oom \in BOOLEAN :
          Commit(init_read_task([St EXCEPT !.oom = oom]))

run_write_data ==
    /\ Runs("write_data")
    /\ \E oom \in BOOLEAN :
          Commit(write_data_task([St EXCEPT !.oom = oom], Head(strand).bufs))

run_after_write ==
    /\ Runs("after_write")
    /\ Commit(after_write_callback(St, Head(strand).ec))

run_after_read_header ==
    /\ Runs("after_read_header")
    /\ Commit(after_read_header(St, Head(strand).ec))

\* ---- the socket completes an operation and its callback joins the strand;
\* an operation still pending when the socket is closed is aborted
CompletionCodes == IF socket_open THEN ErrorCodes ELSE {EcAborted}

write_completes ==
    /\ pending_writes # <<>>
    /\ pending_writes' = Tail(pending_writes)
    /\ \E ec \in CompletionCodes :
          /\ strand' = Append(strand,
                              Task("after_write", Head(pending_writes), ec))
          /\ log' = Append(log, Ev("write_completed", Head(pending_writes), ec))
    /\ UNCHANGED << socket_open, m_close_handler, m_awaiting_buffers,
                    m_close_when_done, m_bufs, m_transmitting, pending_reads,
                    pending_payload_reads, accepted, trace_enabled,
                    read_inited, calls, external_refs, destroyed >>

\* What a read into the header buffer can bring: nothing with an error, a
\* frame header alone, or a header together with its whole payload.
HeaderOnly == << "header" >>
WholeMessage == << "header", "payload" >>
Received(ec) == IF ec = EcOk THEN {HeaderOnly, WholeMessage} ELSE {<<>>}

read_completes ==
    /\ pending_reads > 0
    /\ pending_reads' = pending_reads - 1
    /\ \E ec \in CompletionCodes :
          \E data \in Received(ec) :
             /\ strand' = Append(strand, Task("after_read_header", data, ec))
             /\ log' = Append(log, Ev("read_completed", data, ec))
    /\ UNCHANGED << socket_open, m_close_handler, m_awaiting_buffers,
                    m_close_when_done, m_bufs, m_transmitting, pending_writes,
                    pending_payload_reads, accepted, trace_enabled,
                    read_inited, calls, external_refs, destroyed >>

\* ---- the connection's lifetime
\* The owners of the std::shared_ptr< ws_connection_t >: the handles outside
\* the connection, and one ctx = shared_from_this() in every closure that
\* is on the strand or waits in the socket for its operation to complete.
use_count_callbacks_not_owning ==
    external_refs + Len(strand)

use_count ==
    external_refs + Len(strand) + Len(pending_writes) + pending_reads
        + Len(pending_payload_reads)

\* The user drops its last handle to the connection.
release_handle ==
    /\ external_refs > 0
    /\ external_refs' = external_refs - 1
    /\ UNCHANGED << socket_open, m_close_handler, m_awaiting_buffers,
                    m_close_when_done, m_bufs, m_transmitting, pending_writes,
                    pending_reads, pending_payload_reads, strand, log,
                    accepted, trace_enabled, read_inited, calls, destroyed >>

\* ~ws_connection_t(): the last owner is gone; the destructor traces
\* "destroyed" and the members go, m_socket closing its descriptor.
destroy ==
    /\ ~destroyed
    /\ use_count = 0
    /\ destroyed' = TRUE
    /\ socket_open' = FALSE
    /\ log' = Append(log, Ev("destroyed", <<>>, ""))
    /\ UNCHANGED << m_close_handler, m_awaiting_buffers, m_close_when_done,
                    m_bufs, m_transmitting, pending_writes, pending_reads,
                    pending_payload_reads, strand, accepted, trace_enabled,
                    read_inited, calls, external_refs >>

Next ==
    \/ close
    \/ init_read
    \/ write_data
    \/ run_close
    \/ run_init_read
    \/ run_write_data
    \/ run_after_write
    \/ run_after_read_header
    \/ write_completes
    \/ read_completes

\* ---- the payload of a message
\* How many bytes a payload read for n bytes can bring: at least one when it
\* succeeds, none when it fails.
Transferred(ec, n) == IF ec = EcOk THEN 1..n ELSE {0}

\* The payload reads completed so far.
PayloadReadsCompleted ==
    Cardinality({i \in DOMAIN log : log[i].e = "payload_read_completed"})

payload_read_completes ==
    /\ pending_payload_reads # <<>>
    /\ PayloadReadsCompleted < MaxPayloadReads
    /\ pending_payload_reads' = Tail(pending_payload_reads)
    /\ \E ec \in CompletionCodes :
          \E length \in Transferred(ec, Head(pending_payload_reads)) :
             LET got == << Head(pending_payload_reads), length >>
             IN  /\ strand' = Append(strand, Task("after_read_payload", got, ec))
                 /\ log' = Append(log, Ev("payload_read_completed", got, ec))
    /\ UNCHANGED << socket_open, m_close_handler, m_awaiting_buffers,
                    m_close_when_done, m_bufs, m_transmitting, pending_writes,
                    pending_reads, accepted, trace_enabled, read_inited, calls,
                    external_refs, destroyed >>

run_after_read_payload ==
    /\ Runs("after_read_payload")
    /\ Commit(after_read_payload(St, Head(strand).ec, Head(strand).bufs[2],
                                 Head(strand).bufs[1]))

\* The connection while its owner keeps the handle.
Spec == Init /\ [][Next]_vars

\* The connection whose owner may drop the handle at any moment.
LifeNext ==
    \/ Next
    \/ release_handle
    \/ destroy

LifeSpec == Init /\ [][LifeNext]_vars

\* start_read_payload on its own: no function of this revision calls it, so
\* it is started here as after_read_header is meant to start it, on a
\* connection just constructed, for a payload of 1..MaxPayloadLen bytes.
PayloadInit ==
    /\ \E length_remaining \in 1..MaxPayloadLen :
          Holds(start_read_payload(ws_connection_t(UserHandler),
                                   length_remaining))
    /\ strand = <<>>
    /\ trace_enabled \in BOOLEAN
    /\ read_inited = TRUE
    /\ calls = 0
    /\ external_refs = 1
    /\ destroyed = FALSE

PayloadNext ==
    \/ payload_read_completes
    \/ run_after_read_payload

PayloadSpec == PayloadInit /\ [][PayloadNext]_vars

\* ------------------------------------------------------- reading the log

\* How many entries of l are of kind e.
CountIn(l, e) == Cardinality({i \in DOMAIN l : l[i].e = e})

Count(e) == CountIn(log, e)

RECURSIVE Flatten(_)
Flatten(ss) == IF ss = <<>> THEN <<>> ELSE Head(ss) \o Flatten(Tail(ss))

\* The buffers of the entries of kind e (and, for completions, of code ec),
\* in the order of the log.
BufsOf(l, e, reason) ==
    LET sel == SelectSeq(l, LAMBDA x : x.e = e /\ x.reason = reason)
    IN  Flatten([i \in DOMAIN sel |-> sel[i].bufs])

\* The buffers handed to the socket so far, in the order of the writes.
Written == BufsOf(log, "async_write", "")

\* The buffers whose write has completed without an error.
WrittenOk == BufsOf(log, "write_completed", EcOk)

\* Writes handed to the socket whose callback has not run yet.
WritesOutstanding ==
    Len(pending_writes)
        + Cardinality({i \in DOMAIN strand : strand[i].op = "after_write"})

\* Entry i of the log is of kind e.
Is(i, e) == log[i].e = e

\* ----------------------------------------------------------------- claims

\* C1: the close handler of a connection is invoked at most once, whatever
\* close() calls, write_data() calls, write completions and exceptions occur.
C1_CloseHandlerAtMostOnce == Count("close_handler") <= 1

\* C1 witness: call_close_handler was reached from an error path and from the
\* user-initiated close of the same connection.
C1_Witness ==
    /\ Count("log_error") >= 1
    /\ Count("socket_shutdown") = 1
    /\ Count("close_handler") <= 1

\* C2: at most one socket write is outstanding, and init_write_if_necessary()
\* run while transmitting() is true leaves the connection as it is (no
\* write issued, queue and staged buffers unchanged).
C2_OneWriteInFlight ==
    /\ WritesOutstanding <= 1
    /\ m_transmitting => init_write_if_necessary(St) = St

\* C2 witness: a write is pending while close was requested and buffers
\* wait, so graceful_close and write_data_impl both called
\* init_write_if_necessary during that one write.
C2_Witness ==
    /\ m_transmitting
    /\ Len(pending_writes) = 1
    /\ Count("async_write") = 1
    /\ Count("graceful_close") >= 1
    /\ m_close_when_done
    /\ m_awaiting_buffers # <<>>

\* C3: the buffers handed to successive socket writes, in the order of the
\* writes, followed by the buffers still queued, are exactly the accepted
\* buffers in the order of acceptance: the written buffers are a prefix of
\* the accepted ones and nothing is reordered, duplicated or skipped.
C3_WritesAreFifoPrefix ==
    /\ Len(Written) <= Len(accepted)
    /\ Written = SubSeq(accepted, 1, Len(Written))
    /\ Written \o m_awaiting_buffers = accepted

\* C3 witness: a write began with the second buffer of a write_data call, so
\* pop_ready_buffers split the queue, and a later write took the rest.
C3_Witness ==
    /\ Count("async_write") >= 3
    /\ \E i \in DOMAIN log :
          /\ Is(i, "async_write")
          /\ log[i].bufs[1][2] = 2
    /\ m_awaiting_buffers = <<>>

\* The step runs the write_data closure at the head of the strand.
RunsWriteData == strand # <<>> /\ Head(strand).op = "write_data"
                    /\ strand' = Tail(strand)

\* The step runs the close closure at the head of the strand.
RunsClose == strand # <<>> /\ Head(strand).op = "close"
                /\ strand' = Tail(strand)

\* How many errors were raised: entries of the error log and failed asserts.
ErrorsIn(l) == CountIn(l, "log_error") + CountIn(l, "assert_failed")

\* C4: once graceful_close() has set the close-when-done flag, a write_data
\* call leaves the queue unchanged, issues no socket write and raises no
\* error (append, with its assert, is not reached).
C4_WriteAfterCloseRequestedIsNoOp ==
    [][ (m_close_when_done /\ RunsWriteData) =>
            /\ m_awaiting_buffers' = m_awaiting_buffers
            /\ accepted' = accepted
            /\ CountIn(log', "async_write") = CountIn(log, "async_write")
            /\ pending_writes' = pending_writes
            /\ ErrorsIn(log') = ErrorsIn(log) ]_vars

\* C4 witness: write_data_impl ran on an open socket after close was
\* requested and only logged its warning.
C4_Witness ==
    /\ m_close_when_done
    /\ \E i \in DOMAIN log :
          /\ Is(i, "log_warn")
          /\ log[i].reason = "websocket was closed"
          /\ \E j \in 1..(i - 1) : Is(j, "graceful_close")

\* C5: write_data_impl run while the socket is not open leaves the queue,
\* the close-when-done flag and the output context unchanged, issues no
\* socket write and does not invoke the close handler.
C5_WriteOnClosedSocketIsNoOp ==
    [][ (~socket_open /\ RunsWriteData) =>
            /\ m_awaiting_buffers' = m_awaiting_buffers
            /\ m_close_when_done' = m_close_when_done
            /\ m_bufs' = m_bufs
            /\ m_transmitting' = m_transmitting
            /\ pending_writes' = pending_writes
            /\ CountIn(log', "async_write") = CountIn(log, "async_write")
            /\ CountIn(log', "close_handler") = CountIn(log, "close_handler")
      ]_vars

\* C5 witness: write_data_impl ran after the socket had been closed.
C5_Witness ==
    /\ ~socket_open
    /\ \E i \in DOMAIN log :
          /\ Is(i, "log_warn")
          /\ log[i].reason = "socket is closed"
          /\ \E j \in 1..(i - 1) : Is(j, "socket_close")

\* C6: the socket is shut down only when the queue is empty and no write is
\* in flight, and every buffer accepted before has been written: its write
\* was issued and completed without an error.
C6_ShutdownOnlyWhenDrained ==
    Count("socket_shutdown") > 0 =>
        /\ m_awaiting_buffers = <<>>
        /\ WritesOutstanding = 0
        /\ Written = accepted
        /\ WrittenOk = accepted

\* C6 witness: close ran while data was being written and queued, the rest
\* was written after it, and then the socket was shut down.
C6_Witness ==
    \E i, j, k, l \in DOMAIN log :
        /\ i < j /\ j < k /\ k < l
        /\ Is(i, "async_write")
        /\ Is(j, "graceful_close")
        /\ Is(k, "async_write")
        /\ Is(l, "socket_shutdown")

\* C7: after close_impl() has shut the socket down no socket write is issued
\* any more.
C7_NoWriteAfterShutdown ==
    \A i, j \in DOMAIN log :
        (Is(i, "socket_shutdown") /\ i < j) => ~Is(j, "async_write")

\* C7 witness: after the shutdown a write_data call and a further close
\* call have run.
C7_Witness ==
    \E i, j, k \in DOMAIN log :
        /\ i < j /\ j < k
        /\ Is(i, "socket_shutdown")
        /\ Is(j, "log_warn")
        /\ Is(k, "graceful_close")

C9_UserInitiatedReported ==
    \A i \in DOMAIN log :
        Is(i, "socket_shutdown") =>
            \E j \in 1..(i - 1) :
                Is(j, "close_handler") /\ log[j].reason = "user initiated"

\* C10: when a socket write completes with an error other than cancellation,
\* the close handler is invoked with the error description as reason and
\* the socket is shut down and closed.
C10_WriteErrorTearsDown ==
    \A i \in DOMAIN log :
        (Is(i, "log_error") /\ log[i].reason = EcError) =>
            /\ \E j \in DOMAIN log :
                  Is(j, "close_handler") /\ log[j].reason = EcError
            /\ Count("socket_shutdown") = 1
            /\ Count("socket_close") = 1
            /\ ~socket_open

\* The step runs the write callback at the head of the strand.
RunsAfterWrite == strand # <<>> /\ Head(strand).op = "after_write"
                     /\ strand' = Tail(strand)

\* C11: a write that completes with operation_aborted after close() was
\* called does not invoke the close handler and is not reported as an
\* error: its callback leaves the log and the connection as they are.
C11_AbortedWriteIsSilent ==
    [][ (RunsAfterWrite /\ Head(strand).ec = EcAborted
            /\ Count("graceful_close") >= 1) =>
            /\ CountIn(log', "close_handler") = CountIn(log, "close_handler")
            /\ CountIn(log', "log_error") = CountIn(log, "log_error")
            /\ log' = log
            /\ socket_open' = socket_open ]_vars

\* C11 witness: close ran, then the write in flight completed with
\* operation_aborted, and its callback has run without an error entry.
C11_Witness ==
    /\ WritesOutstanding = 0
    /\ Count("log_error") = 0
    /\ \E i, j \in DOMAIN log :
          /\ i < j
          /\ Is(i, "graceful_close")
          /\ Is(j, "write_completed")
          /\ log[j].reason = EcAborted

\* C12: transmitting() is true exactly when a socket write of the connection
\* is outstanding (issued, its callback not yet run), in every reachable
\* state, also after a write has completed with an error.
C12_TransmittingIffOutstanding ==
    m_transmitting <=> WritesOutstanding > 0

\* Every write completion so far was a success.
AllCompletionsOk ==
    \A i \in DOMAIN log : Is(i, "write_completed") => log[i].reason = EcOk

\* Nothing of the write loop is left to run: no closure waits on the strand
\* and no write is pending.
Quiescent == strand = <<>> /\ pending_writes = <<>>

\* C13: after close() has run on an open connection, if every issued write
\* completes successfully, every accepted buffer is eventually written and
\* the socket is then shut down and closed.  Stated on the states in which
\* nothing is left to run: there the data must have been written and the
\* socket closed.
C13_DrainedThenClosed ==
    (Count("graceful_close") >= 1 /\ AllCompletionsOk /\ Quiescent) =>
        /\ WrittenOk = accepted
        /\ Count("socket_shutdown") = 1
        /\ ~socket_open

\* Callbacks of header reads waiting on the strand.
ReadCallbacksWaiting ==
    Cardinality({i \in DOMAIN strand : strand[i].op = "after_read_header"})

\* C14: when a header read completes with an error, the connection is
\* closed and the failure is notified through the close handler.
C14_HeaderReadErrorCloses ==
    (ReadCallbacksWaiting = 0
        /\ \E i \in DOMAIN log :
              Is(i, "read_completed") /\ log[i].reason = EcError) =>
        /\ ~socket_open
        /\ Count("close_handler") = 1

\* The complete messages received whose read callback has run.
MessagesReceived ==
    IF ReadCallbacksWaiting = 0
    THEN Cardinality({i \in DOMAIN log :
                         Is(i, "read_completed") /\ log[i].bufs = WholeMessage})
    ELSE 0

\* C15: the message handler is invoked exactly once for each complete
\* inbound message: once header and payload have been received and the
\* read callback has run, the handler has been called once with it.
C15_MessageHandlerOncePerMessage ==
    ReadCallbacksWaiting = 0 => Count("msg_handler") = MessagesReceived

\* What C16 compares of a connection state: the close flag, the queue, the
\* socket and its writes, and how often the close handler was invoked and
\* the socket shut down.
Observed(s) ==
    [ close_when_done |-> s.m_close_when_done,
      queue |-> s.m_awaiting_buffers,
      socket_open |-> s.socket_open,
      pending_writes |-> s.pending_writes,
      writes |-> CountIn(s.log, "async_write"),
      handler_calls |-> CountIn(s.log, "close_handler"),
      shutdowns |-> CountIn(s.log, "socket_shutdown") ]

\* C16: close() is idempotent: from any reachable state, running close()
\* twice leaves the close flag, the queue, the socket and the numbers of
\* close-handler invocations and socket shutdowns as running it once does.
C16_CloseIdempotent ==
    Observed(close_task(close_task(St))) = Observed(close_task(St))

\* C16 witness: close has run twice in a row while a write was in flight.
C16_Witness ==
    /\ Len(log) >= 2
    /\ Is(Len(log), "graceful_close")
    /\ Is(Len(log) - 1, "graceful_close")
    /\ m_close_when_done
    /\ Len(pending_writes) = 1

Min(a, b) == IF a <= b THEN a ELSE b

\* C17: for a queue of n buffers and any max_count, pop_ready_buffers into
\* an empty container returns the first min(max_count, n) buffers and leaves
\* the other n - min(max_count, n) in their order: the whole queue, leaving
\* it empty, when max_count >= n.
C17_PopReadyBuffers ==
    \A max_count \in 0..(Len(m_awaiting_buffers) + 1) :
        LET n == Len(m_awaiting_buffers)
            r == pop_ready_buffers(m_awaiting_buffers, max_count, <<>>)
        IN  /\ Len(r.bufs) = Min(max_count, n)
            /\ Len(r.awaiting) = n - Min(max_count, n)
            /\ r.bufs \o r.awaiting = m_awaiting_buffers
            /\ max_count >= n => r.awaiting = <<>>

\* C17 witness: the write in flight took max_count buffers from a longer
\* queue: the buffers of one write_data call lie on both sides of the cut.
C17_Witness ==
    /\ m_transmitting
    /\ Len(m_bufs) = MaxIovLen
    /\ m_awaiting_buffers # <<>>
    /\ m_bufs[Len(m_bufs)][1] = m_awaiting_buffers[1][1]

\* C18: while a dispatched close/init_read/write_data closure or a
\* completion callback has not yet run, or a read or a write is pending in
\* the socket, the connection object has not been destroyed, whether or not
\* a handle to it is still held outside.
C18_AliveWhileOperationsOutstanding ==
    (strand # <<>> \/ pending_writes # <<>> \/ pending_reads > 0) => ~destroyed

\* C18 witness: every outside handle is gone while a closure waits on the
\* strand and a read and a write are pending; only they own the connection.
C18_Witness ==
    /\ external_refs = 0
    /\ strand # <<>>
    /\ pending_writes # <<>>
    /\ pending_reads > 0
    /\ use_count = Len(strand) + Len(pending_writes) + pending_reads

RunsAfterReadPayload ==
    /\ strand # <<>>
    /\ Head(strand).op = "after_read_payload"
    /\ strand' = Tail(strand)

CloseHandlerReached ==
    \/ Count("close_handler") >= 1
    \/ Count("socket_shutdown") >= 1
    \/ \E i \in DOMAIN log : Is(i, "log_error") /\ log[i].reason = EcError

====
